---- MODULE Spec2Model ----
(***************************************************************************)
(* A model of the FastAPI documentation pipeline:                          *)
(*   - the chunker  (FastAPIDocumentProcessor.process_markdown_file),      *)
(*   - the collector (FastAPIDocumentFetcher.extract_documents),           *)
(*   - the loader   (FastAPIDataLoader.load_data / refresh_data) over the  *)
(*     Elasticsearch gateway (ElasticsearchEngine.create_index /           *)
(*     index_documents).                                                   *)
(* Texts are sequences of one-character strings, so that trimming, length  *)
(* tests and id formatting are computed, not assumed.                      *)
(***************************************************************************)
EXTENDS Integers, Sequences, FiniteSets, TLC

\* ------------------------------------------------------------------ bounds
MaxBlocks == 3      \* elements of one rendered document (chunker walk)
MaxFiles == 3       \* markdown files one rglob enumeration yields
MaxLoads == 3       \* load_data / refresh_data invocations in one behaviour

\* ------------------------------------------------------- program constants
MinContentLen == 50 \* `if len(text_content) > 50`

VARIABLES
    \* --- chunker: one call of process_markdown_file, element by element
    file_stem,          \* file_path_obj.stem, a sequence of characters
    base_url,           \* the base_url argument
    elements,           \* the elements soup.find_all has yielded so far
    walk,               \* [current_section, current_subsection, chunks]
    \* --- collector: one call of extract_documents
    docs_exists,        \* docs_path.exists()
    fpc,                \* "idle" | "start" | "walking" | "returned"
    visited,            \* the md_file paths rglob has yielded so far
    docs,               \* the local list `docs`
    processed,          \* per file, in enumeration order: what the processor did
    \* --- loader and gateway
    repo,               \* the chunk collection the working copy yields
    es,                 \* the Elasticsearch index: [exists, docs]
    clock,              \* datetime.utcnow(), as a count of invocations
    run,                \* the load_data / refresh_data call in progress
    ref,                \* a finished call, remembered for comparison
    \* --- tag extractor
    processor,          \* the attributes of the FastAPIDocumentProcessor
    tag_call,           \* the latest call of extract_tags and what it returned
    tag_memo,           \* an earlier call, remembered for comparison
    \* --- MCP server tools
    search_engine,      \* the ISearchEngine the server was constructed with
    data_loader,        \* the IDataLoader the server was constructed with
    index,              \* the documents the Elasticsearch index holds
    call,               \* the latest tool call and what came of it
    \* --- the two implementations of the chunker, side by side
    twin,               \* one document walked by both, element by element
    \* --- the server process (main.py)
    proc,               \* its position, the handles it holds open, its log
    \* --- overlapping loads over one cluster
    tasks,              \* the load_data coroutines, each at an await point
    cluster,            \* the Elasticsearch index they share
    obs                 \* what a search or get-by-id saw, and when

cvars == <<file_stem, base_url, elements, walk>>
fvars == <<docs_exists, fpc, visited, docs, processed>>
lvars == <<repo, es, clock, run, ref>>
tvars == <<processor, tag_call, tag_memo>>
svars == <<search_engine, data_loader, index, call>>
xvars == <<twin, proc, tasks, cluster, obs>>
vars == <<file_stem, base_url, elements, walk,
          docs_exists, fpc, visited, docs, processed,
          repo, es, clock, run, ref,
          processor, tag_call, tag_memo,
          search_engine, data_loader, index, call,
          twin, proc, tasks, cluster, obs>>

\* ------------------------------------------------------------ text helpers
Rep(c, n) == [i \in 1..n |-> c]

IsSpace(c) == c \in {" ", "\n"}

RECURSIVE LStrip(_)
LStrip(s) == IF s # <<>> /\ IsSpace(Head(s)) THEN LStrip(Tail(s)) ELSE s

RECURSIVE RStrip(_)
RStrip(s) ==
    IF s # <<>> /\ IsSpace(s[Len(s)]) THEN RStrip(SubSeq(s, 1, Len(s) - 1)) ELSE s

\* str.strip()
strip(s) == RStrip(LStrip(s))

DigitChars == <<"0", "1", "2", "3", "4", "5", "6", "7", "8", "9">>

\* str(n) of a natural number, as the f-string formats it
RECURSIVE Str(_)
Str(n) ==
    IF n < 10 THEN <<DigitChars[n + 1]>>
    ELSE Str(n \div 10) \o <<DigitChars[(n % 10) + 1]>>

\* ------------------------------------------------------------- the chunker
HeadingNames == {"h1", "h2", "h3", "h4", "h5", "h6"}
ContentNames == {"p", "pre", "ul", "ol"}

\* the tag names handed to soup.find_all
FindAllNames == HeadingNames \cup ContentNames

\* int(element.name[1])
Level(name) ==
    CASE name = "h1" -> 1 [] name = "h2" -> 2 [] name = "h3" -> 3
      [] name = "h4" -> 4 [] name = "h5" -> 5 [] name = "h6" -> 6

\* element.get_text().strip()
get_text_strip(el) == strip(el.text)

\* faulty variant of ChunkId: the ordinal counted from one
ChunkIdFromOne(stem, n) == stem \o <<"#">> \o Str(n + 1)
\* f"{file_path_obj.stem}#{len(chunks)}"
ChunkId(stem, n) == stem \o <<"#">> \o Str(n)

\* faulty variant of Retained: the threshold taken as >= 50
RetainedAtLeast(text) == Len(text) >= MinContentLen
\* len(text_content) > 50
Retained(text) == Len(text) > MinContentLen

\* faulty variant of Title: the section is preferred to the subsection
TitleSectionFirst(section, subsection, stem) ==
    IF section # <<>> THEN section
    ELSE IF subsection # <<>> THEN subsection
    ELSE stem
\* current_subsection or current_section or str(file_path_obj.stem)
Title(section, subsection, stem) ==
    IF subsection # <<>> THEN subsection
    ELSE IF section # <<>> THEN section
    ELSE stem

\* faulty variant of HeadingBranch: a new section keeps the old subsection
HeadingNoReset(w, el) ==
    IF Level(el.name) <= 2
    THEN [w EXCEPT !.current_section = get_text_strip(el)]
    ELSE IF Level(el.name) <= 4
    THEN [w EXCEPT !.current_subsection = get_text_strip(el)]
    ELSE w
\* the heading branch of the loop body (lines 39-45)
HeadingBranch(w, el) ==
    IF Level(el.name) <= 2
    THEN [w EXCEPT !.current_section = get_text_strip(el),
                   !.current_subsection = <<>>]
    ELSE IF Level(el.name) <= 4
    THEN [w EXCEPT !.current_subsection = get_text_strip(el)]
    ELSE w

\* the content branch of the loop body (lines 47-65)
ContentBranch(w, el, stem, url) ==
    LET text_content == get_text_strip(el)
    IN  IF Retained(text_content)
        THEN [w EXCEPT !.chunks = Append(@,
                [id         |-> ChunkId(stem, Len(w.chunks)),
                 title      |-> Title(w.current_section, w.current_subsection, stem),
                 content    |-> text_content,
                 url        |-> url,
                 section    |-> w.current_section,
                 subsection |-> w.current_subsection])]
        ELSE w

\* one iteration of `for element in soup.find_all([...])`
LoopBody(w, el, stem, url) ==
    IF el.name \in HeadingNames THEN HeadingBranch(w, el)
    ELSE IF el.name \in ContentNames THEN ContentBranch(w, el, stem, url)
    ELSE w

\* chunks = [], current_section = "", current_subsection = ""
WalkStart == [current_section |-> <<>>, current_subsection |-> <<>>, chunks |-> <<>>]

RECURSIVE WalkFrom(_, _, _, _)
WalkFrom(w, els, stem, url) ==
    IF els = <<>> THEN w
    ELSE WalkFrom(LoopBody(w, Head(els), stem, url), Tail(els), stem, url)

\* process_markdown_file on a document that renders to the elements `els`
process_markdown_file(stem, url, els) == WalkFrom(WalkStart, els, stem, url).chunks

\* ------------------------------------------------ inputs of the chunker
Stems == {<<"i">>, <<"a">>}
Dirs == {"", "tutorial"}

\* f"{self.base_docs_url}/{rel_path.with_suffix('')}"
BaseDocsUrl == "https://fastapi.tiangolo.com"
FileUrl(dir, stem) == <<BaseDocsUrl, dir, stem>>

HeadingTexts == {<<>>, <<"I">>, <<" ", "D", "\n">>}

Text50Padded == <<" ">> \o Rep("x", MinContentLen) \o <<"\n">>
Text51 == Rep("y", MinContentLen + 1)
Text51Padded == <<"\n">> \o Rep("z", MinContentLen + 1) \o <<" ">>
ContentTexts == {Text50Padded, Text51, Text51Padded}

\* --------------------------------------------- the gateway's index (data)
\* A chunk as the loader and the gateway see it: its id and the url of its
\* file (two chunks of equal id from different files differ in url).
DocA == [id |-> ChunkId(<<"i">>, 0), url |-> FileUrl("", <<"i">>)]
DocB == [id |-> ChunkId(<<"i">>, 1), url |-> FileUrl("", <<"i">>)]
DocC == [id |-> ChunkId(<<"i">>, 0), url |-> FileUrl("tutorial", <<"i">>)]

\* what extract_documents can return for the working copy
Repos == {<<>>, <<DocA>>, <<DocA, DocB>>, <<DocA, DocC>>}

\* exception messages
Msgs == {"Git error", "ES error"}

\* no index of the configured name
NoIndex == [exists |-> FALSE, docs |-> {}]

\* es.indices.delete(index=...)
EsDelete(e) == [exists |-> FALSE, docs |-> {}]

\* es.indices.create(index=..., body=mapping)
EsCreate(e) == [exists |-> TRUE, docs |-> {}]

\* the bulk actions index_documents builds (lines 59-69)
BuildActions(documents, now) ==
    [k \in 1..Len(documents) |->
        [id |-> documents[k].id, url |-> documents[k].url, indexed_at |-> now]]

\* an index action with "_id": doc.id replaces the document of that id
Upsert(d, a) == {x \in d : x.id # a.id} \cup {a}

RECURSIVE ApplyActions(_, _, _, _)
ApplyActions(d, actions, S, i) ==
    IF i > Len(actions) THEN d
    ELSE ApplyActions(IF i \in S THEN Upsert(d, actions[i]) ELSE d, actions, S, i + 1)

\* async_bulk(es, actions), of which the actions at the positions S take effect
EsBulk(e, actions, S) == [exists |-> TRUE, docs |-> ApplyActions(e.docs, actions, S, 1)]

\* ------------------------------------------------ the loader's results (data)
NoResult == [none |-> TRUE]

\* {"error": "No documents found in repository"}
NoDocumentsResult == [error |-> <<"No documents found in repository">>]

\* {"status": "success", "message": f"Successfully loaded {n} ...", "document_count": n}
SuccessResult(documents) ==
    [status |-> "success",
     message |-> <<"Successfully loaded ", Len(documents), " documentation chunks">>,
     document_count |-> Len(documents)]

\* faulty variant of ErrorResult: the exception's message is dropped
ErrorResultNoMessage(m) == [error |-> <<"Data loading failed: ">>]
\* except Exception as e: return {"error": f"Data loading failed: {str(e)}"}
ErrorResult(m) == [error |-> <<"Data loading failed: ", m>>]

IdleRun ==
    [op |-> "none", pc |-> "idle", documents |-> <<>>, extracted |-> FALSE,
     calls |-> <<>>, result |-> NoResult, es0 |-> NoIndex,
     fault |-> "none", msg |-> ""]

NoRef == [op |-> "none"]

LoaderIdle ==
    /\ repo = <<>>
    /\ es = NoIndex
    /\ clock = 0
    /\ run = IdleRun
    /\ ref = NoRef

\* ------------------------------------------------- idle values of the rest
\* def __init__(self, base_docs_url="https://fastapi.tiangolo.com")
NewProcessor == [base_docs_url |-> BaseDocsUrl]

NoTagCall == [made |-> FALSE, content |-> <<>>, section |-> <<>>, tags |-> <<>>]

TagsIdle ==
    /\ processor = NewProcessor
    /\ tag_call = NoTagCall
    /\ tag_memo = NoTagCall

\* no tool has been called
NoCall ==
    [tool |-> "none", module |-> "none", pc |-> "idle", arg |-> "",
     es_raised |-> FALSE, gw_raised |-> FALSE, msg |-> "",
     hits |-> <<>>, doc |-> NoResult, result |-> NoResult, backend_calls |-> <<>>]

\* no document has been given to the two chunkers
NoTwin ==
    [dir |-> "", stem |-> <<>>, elements |-> <<>>,
     modular |-> WalkStart, monolith |-> WalkStart]

\* the server process has not been started
NoProcess == [pc |-> "idle", open |-> {}, log |-> <<>>, served |-> 0]

Tasks == {1, 2}

\* a load_data coroutine that has not been called
IdleTask == [pc |-> "idle", documents |-> <<>>, result |-> NoResult, es0 |-> NoIndex]

NoObs == [made |-> FALSE, exists |-> FALSE, docs |-> {}, during |-> {}]

ExtrasIdle ==
    /\ twin = NoTwin
    /\ proc = NoProcess
    /\ tasks = [t \in Tasks |-> IdleTask]
    /\ cluster = NoIndex
    /\ obs = NoObs

\* main.py: FastAPIMCPServer(FastAPIDataLoader(fetcher, search_engine),
\*                           ElasticsearchEngine(...)), over an empty cluster
ToolsIdle ==
    /\ search_engine = "ElasticsearchEngine"
    /\ data_loader = "FastAPIDataLoader"
    /\ index = {}
    /\ call = NoCall

CollectorIdle ==
    /\ docs_exists = FALSE
    /\ fpc = "idle"
    /\ visited = {}
    /\ docs = <<>>
    /\ processed = <<>>

\* ============================================================ the chunker
\* One call of process_markdown_file, observed element by element.
ChunkInit ==
    /\ file_stem \in Stems
    /\ base_url = FileUrl("", file_stem)
    /\ elements = <<>>
    /\ walk = WalkStart
    /\ CollectorIdle
    /\ LoaderIdle
    /\ TagsIdle
    /\ ToolsIdle
    /\ ExtrasIdle

\* find_all yields a heading element
HeadingElement ==
    /\ Len(elements) < MaxBlocks
    /\ \E name \in HeadingNames, text \in HeadingTexts :
          LET el == [name |-> name, text |-> text]
          IN  /\ elements' = Append(elements, el)
              /\ walk' = LoopBody(walk, el, file_stem, base_url)
    /\ UNCHANGED <<file_stem, base_url>>
    /\ UNCHANGED <<fvars, lvars, tvars, svars, xvars>>

\* find_all yields a p, pre, ul or ol element
ContentElement ==
    /\ Len(elements) < MaxBlocks
    /\ \E name \in ContentNames, text \in ContentTexts :
          LET el == [name |-> name, text |-> text]
          IN  /\ elements' = Append(elements, el)
              /\ walk' = LoopBody(walk, el, file_stem, base_url)
    /\ UNCHANGED <<file_stem, base_url>>
    /\ UNCHANGED <<fvars, lvars, tvars, svars, xvars>>

ChunkNext == HeadingElement \/ ContentElement

SpecChunk == ChunkInit /\ [][ChunkNext]_vars

\* ------------------------------------------------ what the claims refer to
\* a block that must yield a chunk: p/pre/ul/ol with trimmed text over 50
Qualifies(el) ==
    /\ el.name \in {"p", "pre", "ul", "ol"}
    /\ Len(strip(el.text)) > MinContentLen

\* the positions of the qualifying blocks of a stream, in document order
QualifyingIndexes(els) ==
    SelectSeq([i \in 1..Len(els) |-> i], LAMBDA i : Qualifies(els[i]))

Max(S) == CHOOSE m \in S : \A x \in S : x <= m

\* position of the most recent h1/h2 before position i (0: none)
SectionIndex(els, i) ==
    LET H == {j \in 1..(i - 1) : els[j].name \in {"h1", "h2"}}
    IN  IF H = {} THEN 0 ELSE Max(H)

\* position of the most recent h3/h4 after that heading and before i (0: none)
SubsectionIndex(els, i) ==
    LET H == {j \in (SectionIndex(els, i) + 1)..(i - 1) : els[j].name \in {"h3", "h4"}}
    IN  IF H = {} THEN 0 ELSE Max(H)

HeadingTextAt(els, j) == IF j = 0 THEN <<>> ELSE strip(els[j].text)

\* C2: the chunker emits a chunk for a block iff the block is a p/pre/ul/ol
\* block whose trimmed text is longer than 50 characters; the chunk's content
\* is that trimmed text.
C2_ChunkIffLongContentBlock ==
    LET q == QualifyingIndexes(elements)
    IN  /\ Len(walk.chunks) = Len(q)
        /\ \A k \in 1..Len(q) :
              /\ walk.chunks[k].content = strip(elements[q[k]].text)
              /\ Len(walk.chunks[k].content) > MinContentLen

\* a 50-character block emitted nothing and a 51-character block one chunk
C2_Witness ==
    /\ Len(elements) = 2
    /\ elements[1].name = "ul" /\ Len(strip(elements[1].text)) = MinContentLen
    /\ elements[2].name = "p" /\ Len(strip(elements[2].text)) = MinContentLen + 1
    /\ Len(walk.chunks) = 1

\* C3: every chunk's section is the trimmed text of the most recent h1/h2
\* before its block, and its subsection that of the most recent h3/h4 between
\* that heading and its block (empty when there is none); h5/h6 and later
\* blocks do not matter.
C3_SectionTracksHeadings ==
    LET q == QualifyingIndexes(elements)
    IN  /\ Len(walk.chunks) = Len(q)
        /\ \A k \in 1..Len(q) :
              /\ walk.chunks[k].section =
                    HeadingTextAt(elements, SectionIndex(elements, q[k]))
              /\ walk.chunks[k].subsection =
                    HeadingTextAt(elements, SubsectionIndex(elements, q[k]))

\* an h3 is followed by a new h2, and the chunk after it has no subsection
C3_Witness ==
    /\ Len(elements) = 3
    /\ elements[1].name = "h3" /\ strip(elements[1].text) # <<>>
    /\ elements[2].name = "h2" /\ strip(elements[2].text) # <<>>
    /\ Len(walk.chunks) = 1
    /\ walk.chunks[1].section = strip(elements[2].text)
    /\ walk.chunks[1].subsection = <<>>

\* C19: every chunk's title is the subsection current at its block if that is
\* non-empty, else the section current at its block if that is non-empty, else
\* the file's stem; with a non-empty stem no title is empty.
C19_TitleFallsBack ==
    LET q == QualifyingIndexes(elements)
    IN  /\ Len(walk.chunks) = Len(q)
        /\ \A k \in 1..Len(q) :
              LET sec == HeadingTextAt(elements, SectionIndex(elements, q[k]))
                  sub == HeadingTextAt(elements, SubsectionIndex(elements, q[k]))
                  t   == walk.chunks[k].title
              IN  /\ sub # <<>> => t = sub
                  /\ (sub = <<>> /\ sec # <<>>) => t = sec
                  /\ (sub = <<>> /\ sec = <<>>) => t = file_stem
                  /\ file_stem # <<>> => t # <<>>

\* a chunk under an h2 and an h4 is titled by the h4's text, not the h2's
C19_Witness ==
    /\ Len(elements) = 3
    /\ elements[1].name = "h2" /\ strip(elements[1].text) # <<>>
    /\ elements[2].name = "h4" /\ strip(elements[2].text) # <<>>
    /\ strip(elements[1].text) # strip(elements[2].text)
    /\ Len(walk.chunks) = 1
    /\ walk.chunks[1].title = strip(elements[2].text)

\* C26: the k-th chunk of a file, counted from 0 in document order, has the id
\* "<stem>#k"; elements that emit no chunk consume no ordinal, so n chunks
\* have the ids stem#0 .. stem#(n-1).
C26_IdsAreStemAndOrdinal ==
    /\ Len(walk.chunks) = Len(QualifyingIndexes(elements))
    /\ \A k \in 1..Len(walk.chunks) :
          walk.chunks[k].id = file_stem \o <<"#">> \o Str(k - 1)

\* a block of 50 characters, then two blocks that emit: the ids are #0 and #1
C26_Witness ==
    /\ Len(elements) = 3
    /\ elements[1].name \in ContentNames /\ ~Qualifies(elements[1])
    /\ Qualifies(elements[2]) /\ Qualifies(elements[3])
    /\ Len(walk.chunks) = 2
    /\ walk.chunks[1].id = file_stem \o <<"#", "0">>
    /\ walk.chunks[2].id = file_stem \o <<"#", "1">>

\* ========================================================== the collector
\* One call of extract_documents.  rglob yields the files of the tree one by
\* one; which files the tree holds, where, and what each renders to is the
\* input, drawn when the file is reached.
Paths == [dir : Dirs, stem : Stems]

El(name, text) == [name |-> name, text |-> text]

FileContents ==
    { <<>>,
      <<El("p", Text50Padded)>>,
      <<El("h1", <<"I">>), El("p", Text51)>>,
      <<El("p", Text51), El("h3", <<" ", "D", "\n">>), El("ul", Text51Padded)>> }

ChunkerIdle ==
    /\ file_stem = <<>>
    /\ base_url = <<>>
    /\ elements = <<>>
    /\ walk = WalkStart

CollectInit ==
    /\ docs_exists \in BOOLEAN
    /\ fpc = "start"
    /\ visited = {}
    /\ docs = <<>>
    /\ processed = <<>>
    /\ ChunkerIdle
    /\ LoaderIdle
    /\ TagsIdle
    /\ ToolsIdle
    /\ ExtrasIdle

\* faulty variant of MissingDocsPc: a missing directory is an error
MissingDocsRaises == "raised"
\* where extract_documents goes when docs_path does not exist (lines 53-56)
MissingDocsPc == "returned"

\* faulty variant of FileErrorPc: the processor's exception is not caught
FileErrorPropagates == "raised"
\* where the loop goes when processing a file raised (lines 67-68)
FileErrorPc == "walking"

\* faulty variant of Extend: a file's chunks are put before the earlier ones
ExtendFront(d, content) == IF content # <<>> THEN content \o d ELSE d
\* `if content: docs.extend(content)`
Extend(d, content) == IF content # <<>> THEN d \o content ELSE d

\* `if not docs_path.exists(): return docs`
DocsDirMissing ==
    /\ fpc = "start"
    /\ ~docs_exists
    /\ fpc' = MissingDocsPc
    /\ UNCHANGED <<docs_exists, visited, docs, processed>>
    /\ UNCHANGED <<cvars, lvars, tvars, svars, xvars>>

\* one iteration of the loop: the processor returns the file's chunks
ProcessFile ==
    /\ fpc \in {"start", "walking"}
    /\ docs_exists
    /\ Cardinality(visited) < MaxFiles
    /\ \E md_file \in Paths \ visited, els \in FileContents :
          LET content == process_markdown_file(md_file.stem,
                             FileUrl(md_file.dir, md_file.stem), els)
          IN  /\ visited' = visited \cup {md_file}
              /\ docs' = Extend(docs, content)
              /\ processed' = Append(processed,
                     [file |-> md_file, raised |-> FALSE, chunks |-> content])
    /\ fpc' = "walking"
    /\ UNCHANGED docs_exists
    /\ UNCHANGED <<cvars, lvars, tvars, svars, xvars>>

\* one iteration of the loop: the processor raises (unreadable or
\* unrenderable file); `except Exception` logs it
ProcessFileRaises ==
    /\ fpc \in {"start", "walking"}
    /\ docs_exists
    /\ Cardinality(visited) < MaxFiles
    /\ \E md_file \in Paths \ visited :
          /\ visited' = visited \cup {md_file}
          /\ processed' = Append(processed,
                 [file |-> md_file, raised |-> TRUE, chunks |-> <<>>])
    /\ fpc' = FileErrorPc
    /\ UNCHANGED <<docs_exists, docs>>
    /\ UNCHANGED <<cvars, lvars, tvars, svars, xvars>>

\* rglob is exhausted: `return docs`
CollectReturn ==
    /\ fpc \in {"start", "walking"}
    /\ docs_exists
    /\ fpc' = "returned"
    /\ UNCHANGED <<docs_exists, visited, docs, processed>>
    /\ UNCHANGED <<cvars, lvars, tvars, svars, xvars>>

CollectNext == DocsDirMissing \/ ProcessFile \/ ProcessFileRaises \/ CollectReturn

SpecCollect == CollectInit /\ [][CollectNext]_vars

\* ------------------------------------------------ what the claims refer to
RECURSIVE ChunksOfGoodFiles(_)
ChunksOfGoodFiles(ps) ==
    IF ps = <<>> THEN <<>>
    ELSE (IF Head(ps).raised THEN <<>> ELSE Head(ps).chunks)
         \o ChunksOfGoodFiles(Tail(ps))

\* C1: no two chunks of one extraction run have the same id, whatever the
\* names of the files and the subdirectories they lie in.
C1_IdsUniqueInRun ==
    \A i, j \in 1..Len(docs) : i # j => docs[i].id # docs[j].id

\* C4: a file whose processing raises contributes no chunk and does not stop
\* the walk: the result is the concatenation of the chunks of the files that
\* processed without error, and extract_documents does not raise.
C4_FailedFileSkipped ==
    /\ fpc # "raised"
    /\ docs = ChunksOfGoodFiles(processed)

\* a failing file was followed by a file that yielded chunks, and the call
\* returned those chunks
C4_Witness ==
    /\ fpc = "returned"
    /\ Len(processed) = 3
    /\ ~processed[1].raised /\ processed[1].chunks # <<>>
    /\ processed[2].raised
    /\ ~processed[3].raised /\ processed[3].chunks # <<>>
    /\ docs = processed[1].chunks \o processed[3].chunks

\* C5: with no docs directory the collector returns the empty sequence, does
\* not raise and never invokes the processor.
C5_MissingDocsDirReturnsEmpty ==
    ~docs_exists =>
        /\ fpc # "raised"
        /\ processed = <<>>
        /\ docs = <<>>
        /\ visited = {}

C5_Witness == ~docs_exists /\ fpc = "returned" /\ docs = <<>>

\* the number of chunks the files before position i contributed
RECURSIVE ChunksBefore(_, _)
ChunksBefore(ps, i) ==
    IF i <= 1 THEN 0 ELSE ChunksBefore(ps, i - 1) + Len(ps[i - 1].chunks)

\* C25: the collector's sequence is the concatenation of the per-file chunk
\* sequences in enumeration order: the chunks of the i-th file stand together,
\* in their document order, after all chunks of the files enumerated before.
C25_ConcatenationInFileOrder ==
    /\ Len(docs) = ChunksBefore(processed, Len(processed) + 1)
    /\ \A i \in 1..Len(processed) :
          \A k \in 1..Len(processed[i].chunks) :
              docs[ChunksBefore(processed, i) + k] = processed[i].chunks[k]

\* a file of two chunks was enumerated before a file of one chunk
C25_Witness ==
    /\ fpc = "returned"
    /\ Len(processed) = 2
    /\ Len(processed[1].chunks) = 2
    /\ Len(processed[2].chunks) = 1
    /\ processed[1].file.stem # processed[2].file.stem
    /\ docs = processed[1].chunks \o processed[2].chunks

\* ============================================================== the loader
\* load_data and refresh_data, one collaborator call per step.  Every call
\* can raise; load_data's `except Exception` turns that into an error record.
\* A call to Elasticsearch that raises may or may not have taken effect.

\* the first step of load_data, and of refresh_data, which is
\* `return await self.load_data()`
load_data_entry == "sync"
\* faulty variant of refresh_data_entry: an incremental path without the sync
refresh_skips_sync == "extract"
refresh_data_entry == load_data_entry

\* faulty variant of EmptyCheck: the empty collection is not detected
EmptyCheckMissing(documents) == FALSE
\* `if not documents:`
EmptyCheck(documents) == documents = <<>>

\* faulty variant of AfterExists: an existing index is kept as it is
AfterExistsKeepsIndex(found) == IF found THEN "bulk" ELSE "create"
\* create_index: `if await self.es.indices.exists(...)`: delete, then create
AfterExists(found) == IF found THEN "delete" ELSE "create"

Called(name) == Append(run.calls, name)

\* the except branch of load_data: the call ends with the error record
Caught(r, step, m) ==
    [r EXCEPT !.pc = "done", !.result = ErrorResult(m), !.fault = step, !.msg = m]

Begin(op, entry) ==
    /\ run.pc = "idle"
    /\ clock < MaxLoads
    /\ clock' = clock + 1
    /\ run' = [IdleRun EXCEPT !.op = op, !.pc = entry, !.es0 = es]
    /\ UNCHANGED <<repo, es, ref>>

LoadInit ==
    /\ LoaderIdle
    /\ ChunkerIdle
    /\ CollectorIdle
    /\ TagsIdle
    /\ ToolsIdle
    /\ ExtrasIdle

\* load_data() is called
InvokeLoad ==
    /\ Begin("load_data", load_data_entry)
    /\ UNCHANGED <<cvars, fvars, tvars, svars, xvars>>

\* refresh_data() is called
InvokeRefresh ==
    /\ Begin("refresh_data", refresh_data_entry)
    /\ UNCHANGED <<cvars, fvars, tvars, svars, xvars>>

\* await self.fetcher.clone_or_update_repo(): the pull may bring a new tree
SyncOk ==
    /\ run.pc = "sync"
    /\ \E r \in Repos : repo' = r
    /\ run' = [run EXCEPT !.pc = "extract", !.calls = Called("clone_or_update_repo")]
    /\ UNCHANGED <<es, clock, ref>>
    /\ UNCHANGED <<cvars, fvars, tvars, svars, xvars>>

SyncRaises ==
    /\ run.pc = "sync"
    /\ \E m \in Msgs :
          run' = Caught([run EXCEPT !.calls = Called("clone_or_update_repo")],
                        "clone_or_update_repo", m)
    /\ UNCHANGED <<repo, es, clock, ref>>
    /\ UNCHANGED <<cvars, fvars, tvars, svars, xvars>>

\* documents = await self.fetcher.extract_documents(); if not documents: ...
ExtractOk ==
    /\ run.pc = "extract"
    /\ LET r == [run EXCEPT !.documents = repo, !.extracted = TRUE,
                            !.calls = Called("extract_documents")]
       IN  run' = IF EmptyCheck(repo)
                  THEN [r EXCEPT !.pc = "done", !.result = NoDocumentsResult]
                  ELSE [r EXCEPT !.pc = "exists"]
    /\ UNCHANGED <<repo, es, clock, ref>>
    /\ UNCHANGED <<cvars, fvars, tvars, svars, xvars>>

ExtractRaises ==
    /\ run.pc = "extract"
    /\ \E m \in Msgs :
          run' = Caught([run EXCEPT !.calls = Called("extract_documents")],
                        "extract_documents", m)
    /\ UNCHANGED <<repo, es, clock, ref>>
    /\ UNCHANGED <<cvars, fvars, tvars, svars, xvars>>

\* create_index: await self.es.indices.exists(index=...)
ExistsOk ==
    /\ run.pc = "exists"
    /\ run' = [run EXCEPT !.pc = AfterExists(es.exists), !.calls = Called("create_index")]
    /\ UNCHANGED <<repo, es, clock, ref>>
    /\ UNCHANGED <<cvars, fvars, tvars, svars, xvars>>

ExistsRaises ==
    /\ run.pc = "exists"
    /\ \E m \in Msgs :
          run' = Caught([run EXCEPT !.calls = Called("create_index")], "exists", m)
    /\ UNCHANGED <<repo, es, clock, ref>>
    /\ UNCHANGED <<cvars, fvars, tvars, svars, xvars>>

\* create_index: await self.es.indices.delete(index=...)
DeleteOk ==
    /\ run.pc = "delete"
    /\ es' = EsDelete(es)
    /\ run' = [run EXCEPT !.pc = "create"]
    /\ UNCHANGED <<repo, clock, ref>>
    /\ UNCHANGED <<cvars, fvars, tvars, svars, xvars>>

DeleteRaises ==
    /\ run.pc = "delete"
    /\ \E m \in Msgs, applied \in BOOLEAN :
          /\ es' = IF applied THEN EsDelete(es) ELSE es
          /\ run' = Caught(run, "delete", m)
    /\ UNCHANGED <<repo, clock, ref>>
    /\ UNCHANGED <<cvars, fvars, tvars, svars, xvars>>

\* create_index: await self.es.indices.create(index=..., body=mapping);
\* Elasticsearch refuses to create an index that exists
CreateOk ==
    /\ run.pc = "create"
    /\ ~es.exists
    /\ es' = EsCreate(es)
    /\ run' = [run EXCEPT !.pc = "bulk"]
    /\ UNCHANGED <<repo, clock, ref>>
    /\ UNCHANGED <<cvars, fvars, tvars, svars, xvars>>

CreateRaises ==
    /\ run.pc = "create"
    /\ \E m \in Msgs, applied \in BOOLEAN :
          /\ es' = IF applied /\ ~es.exists THEN EsCreate(es) ELSE es
          /\ run' = Caught(run, "create", m)
    /\ UNCHANGED <<repo, clock, ref>>
    /\ UNCHANGED <<cvars, fvars, tvars, svars, xvars>>

\* index_documents: success, failed = await async_bulk(self.es, actions)
BulkOk ==
    /\ run.pc = "bulk"
    /\ LET actions == BuildActions(run.documents, clock)
       IN  es' = EsBulk(es, actions, 1..Len(actions))
    /\ run' = [run EXCEPT !.pc = "done", !.result = SuccessResult(run.documents),
                          !.calls = Called("index_documents")]
    /\ UNCHANGED <<repo, clock, ref>>
    /\ UNCHANGED <<cvars, fvars, tvars, svars, xvars>>

\* async_bulk raises: any part of the actions may have been indexed
BulkRaises ==
    /\ run.pc = "bulk"
    /\ LET actions == BuildActions(run.documents, clock)
       IN  \E m \in Msgs, S \in SUBSET (1..Len(actions)) :
             /\ es' = IF S = {} THEN es ELSE EsBulk(es, actions, S)
             /\ run' = Caught([run EXCEPT !.calls = Called("index_documents")],
                              "index_documents", m)
    /\ UNCHANGED <<repo, clock, ref>>
    /\ UNCHANGED <<cvars, fvars, tvars, svars, xvars>>

\* what is remembered of a finished call
Summary ==
    [op |-> run.op, tree |-> repo, es0_exists |-> run.es0.exists,
     fault |-> run.fault, msg |-> run.msg, calls |-> run.calls,
     result |-> run.result, size |-> Cardinality(es.docs)]

\* the call returns its result to the caller
Return ==
    /\ run.pc = "done"
    /\ run' = IdleRun
    /\ \E keep \in BOOLEAN : ref' = IF keep THEN Summary ELSE ref
    /\ UNCHANGED <<repo, es, clock>>
    /\ UNCHANGED <<cvars, fvars, tvars, svars, xvars>>

LoadNext ==
    \/ InvokeLoad \/ InvokeRefresh
    \/ SyncOk \/ SyncRaises
    \/ ExtractOk \/ ExtractRaises
    \/ ExistsOk \/ ExistsRaises
    \/ DeleteOk \/ DeleteRaises
    \/ CreateOk \/ CreateRaises
    \/ BulkOk \/ BulkRaises
    \/ Return

SpecLoad == LoadInit /\ [][LoadNext]_vars

\* ------------------------------------------------ what the claims refer to
Range(f) == {f[i] : i \in DOMAIN f}

AllFourCalls ==
    <<"clone_or_update_repo", "extract_documents", "create_index", "index_documents">>

IsSuccess(r) == "status" \in DOMAIN r

\* the call failed once the drop-and-recreate had begun (the delete, the
\* create or the bulk request raised)
FailedAfterDropBegan ==
    /\ run.pc = "done"
    /\ run.fault \in {"delete", "create", "index_documents"}

\* a document of the index is a chunk of the collection this call extracted,
\* indexed by this call
IsNewChunk(d) ==
    /\ d.indexed_at = clock
    /\ \E k \in 1..Len(run.documents) :
          run.documents[k].id = d.id /\ run.documents[k].url = d.url

\* the remembered call and the call that has just finished started with the
\* same tree and index, and met the same failure (or none)
SameCircumstances ==
    /\ run.pc = "done"
    /\ ref.op # "none"
    /\ ref.tree = repo
    /\ ref.es0_exists = run.es0.exists
    /\ ref.fault = run.fault
    /\ ref.msg = run.msg

\* C6: load() never raises; a step that throws with message m makes it return
\* {error: "Data loading failed: m"}, and it returns a success record only
\* when all four steps completed without throwing.
C6_LoadNeverRaises ==
    /\ run.pc # "raised"
    /\ run.pc = "done" =>
         /\ run.fault # "none" =>
               run.result = [error |-> <<"Data loading failed: ", run.msg>>]
         /\ IsSuccess(run.result) <=>
               (run.fault = "none" /\ run.calls = AllFourCalls)
         /\ IsSuccess(run.result) => run.result.status = "success"

\* the bulk request raised "ES error" and the call returned the error record
C6_Witness ==
    /\ run.pc = "done"
    /\ run.fault = "index_documents"
    /\ run.msg = "ES error"
    /\ run.result = [error |-> <<"Data loading failed: ", "ES error">>]

\* C7: when collection yields no chunks, load() returns exactly
\* {error: "No documents found in repository"}, calls neither create_index nor
\* index_documents, and leaves the index as it was.
C7_NoDocumentsShortCircuit ==
    (run.extracted /\ run.documents = <<>>) =>
        /\ run.pc = "done"
        /\ run.result = [error |-> <<"No documents found in repository">>]
        /\ "create_index" \notin Range(run.calls)
        /\ "index_documents" \notin Range(run.calls)
        /\ es = run.es0

\* an empty collection was extracted while the index held documents
C7_Witness ==
    /\ run.pc = "done"
    /\ run.extracted
    /\ run.documents = <<>>
    /\ es.docs # {}

\* every chunk of the extracted collection is in the index, indexed by this
\* call: the bulk index has completed
BulkCompleted ==
    \A k \in 1..Len(run.documents) :
        \E d \in es.docs : d.id = run.documents[k].id /\ d.indexed_at = clock

\* C8 (as claimed): a load that fails after the drop-and-recreate has begun
\* and before the bulk index has completed leaves the index empty: it holds
\* neither prior content nor any chunk of the new collection.
C8_FailedLoadLeavesIndexEmpty ==
    (FailedAfterDropBegan /\ ~BulkCompleted) => es.docs = {}

\* C8 (amended): such a load never restores prior content and never mixes it
\* with new chunks: a failed delete leaves the prior index whole or no index,
\* a failed create leaves no index or an empty one, a failed bulk request
\* leaves an index holding only chunks of the new collection.
C8_FailedLoadNoRollback ==
    FailedAfterDropBegan =>
        /\ run.fault = "delete" => (es = run.es0 \/ es = NoIndex)
        /\ run.fault = "create" => es.docs = {}
        /\ run.fault = "index_documents" =>
              /\ es.exists
              /\ \A d \in es.docs : IsNewChunk(d)

\* the bulk request failed part-way over an index that had held documents
C8_Witness ==
    /\ FailedAfterDropBegan
    /\ run.fault = "index_documents"
    /\ run.es0.docs # {}
    /\ es.docs # {}
    /\ Cardinality(es.docs) < Len(run.documents)

\* C9: refresh_data() issues the same collaborator calls and returns the same
\* result as load_data() does in the same circumstances.
C9_RefreshEqualsLoad ==
    (SameCircumstances /\ ref.op # run.op) =>
        /\ ref.calls = run.calls
        /\ ref.result = run.result

\* a refresh succeeded in the circumstances of a remembered successful load
C9_Witness ==
    /\ SameCircumstances
    /\ ref.op = "load_data"
    /\ run.op = "refresh_data"
    /\ IsSuccess(run.result)
    /\ run.calls = AllFourCalls

\* C10: successful runs against the same tree report the same document_count
\* and leave the index holding the same number of documents.
C10_SameTreeSameCount ==
    ( /\ run.pc = "done"
      /\ IsSuccess(run.result)
      /\ ref.op # "none"
      /\ IsSuccess(ref.result)
      /\ ref.tree = repo ) =>
        /\ run.result.document_count = ref.result.document_count
        /\ Cardinality(es.docs) = ref.size

\* a load and a later refresh both succeeded on the same two-chunk tree
C10_Witness ==
    /\ run.pc = "done"
    /\ IsSuccess(run.result)
    /\ run.op = "refresh_data"
    /\ ref.op = "load_data"
    /\ IsSuccess(ref.result)
    /\ ref.tree = repo
    /\ Len(repo) = 2

\* the collaborator method within which a step of load_data lies
Collaborator(step) ==
    IF step \in {"exists", "delete", "create"} THEN "create_index" ELSE step

IsPrefix(a, b) == Len(a) <= Len(b) /\ a = SubSeq(b, 1, Len(a))

\* C23: in every load the collaborator calls are made in the order sync,
\* collect, create index, bulk index, each at most once and each only after
\* the one before has returned: create_index only after a non-empty
\* collection, index_documents only after create_index returned, and nothing
\* after a step that failed.
C23_CallsInOrder ==
    /\ IsPrefix(run.calls, AllFourCalls)
    /\ "create_index" \in Range(run.calls) =>
          (run.extracted /\ run.documents # <<>>)
    /\ "index_documents" \in Range(run.calls) =>
          run.fault \in {"none", "index_documents"}
    /\ run.pc = "bulk" => (run.fault = "none" /\ es.exists)
    /\ run.fault # "none" =>
          /\ run.pc = "done"
          /\ run.calls # <<>>
          /\ run.calls[Len(run.calls)] = Collaborator(run.fault)

\* the creation of the index failed and the bulk index was never called
C23_Witness ==
    /\ run.pc = "done"
    /\ run.fault = "create"
    /\ run.calls = <<"clone_or_update_repo", "extract_documents", "create_index">>

\* C24: create_index deletes an index of the configured name exactly when one
\* exists, and when it has returned the index exists and holds no document.
C24_CreateIndexIsDestructive ==
    [][ /\ (run.pc = "exists" /\ run'.pc \notin {"exists", "done"}) =>
              /\ es.exists => run'.pc = "delete"
              /\ ~es.exists => run'.pc = "create"
        /\ (run.pc = "delete" /\ run'.pc = "create") => ~es'.exists
        /\ (run.pc # "bulk" /\ run'.pc = "bulk") =>
              (run.pc = "create" /\ es'.exists /\ es'.docs = {}) ]_vars

\* create_index has returned over an index that held documents
C24_Witness ==
    /\ run.pc = "bulk"
    /\ run.es0.exists
    /\ run.es0.docs # {}
    /\ es = [exists |-> TRUE, docs |-> {}]

\* C28: after a load returned success with document_count n the index holds
\* exactly n documents, one for each chunk of the extracted collection.
C28_IndexHoldsEveryChunk ==
    (run.pc = "done" /\ IsSuccess(run.result)) =>
        /\ Cardinality(es.docs) = run.result.document_count
        /\ \A k \in 1..Len(run.documents) :
              \E d \in es.docs :
                  d.id = run.documents[k].id /\ d.url = run.documents[k].url

\* ======================================================= the tag extractor
\* FastAPIDocumentProcessor.extract_tags(content, section).  Texts and tags
\* are sequences of characters; the patterns are matched as re.search matches
\* them (ASCII texts).
UpperChars ==
    <<"A", "B", "C", "D", "E", "F", "G", "H", "I", "J", "K", "L", "M",
      "N", "O", "P", "Q", "R", "S", "T", "U", "V", "W", "X", "Y", "Z">>
LowerChars ==
    <<"a", "b", "c", "d", "e", "f", "g", "h", "i", "j", "k", "l", "m",
      "n", "o", "p", "q", "r", "s", "t", "u", "v", "w", "x", "y", "z">>

LowerChar(c) ==
    IF \E i \in 1..26 : UpperChars[i] = c
    THEN LowerChars[CHOOSE i \in 1..26 : UpperChars[i] = c]
    ELSE c

\* str.lower()
lower(s) == [i \in 1..Len(s) |-> LowerChar(s[i])]

\* \w
IsWordChar(c) == c \in Range(LowerChars) \cup Range(UpperChars) \cup Range(DigitChars) \cup {"_"}

\* \s
IsReSpace(c) == c \in {" ", "\t", "\n", "\r"}

\* the text w occurs in s at position i
OccursAt(s, w, i) ==
    /\ i >= 1
    /\ i + Len(w) - 1 <= Len(s)
    /\ SubSeq(s, i, i + Len(w) - 1) = w

\* faulty variant of WordBoundaries: \b left out, a word matches inside a word
NoBoundaries(s, i, j) == TRUE
\* \b before position i and \b after position j of s, for a match s[i..j]
\* that begins and ends with a word character
WordBoundaries(s, i, j) ==
    /\ i = 1 \/ ~IsWordChar(s[i - 1])
    /\ j = Len(s) \/ ~IsWordChar(s[j + 1])

\* the three shapes of pattern in the table
Lit(w) == [kind |-> "lit", words |-> <<w>>]         \* r'router'
Word(ws) == [kind |-> "word", words |-> ws]         \* r'\b(get|post)\b'
Gap(a, b) == [kind |-> "gap", words |-> <<a, b>>]   \* r'file.*upload'

\* re.search(pattern, text) is not None
Search(p, text) ==
    CASE p.kind = "lit" ->
            \E i \in 1..Len(text) : OccursAt(text, p.words[1], i)
      [] p.kind = "word" ->
            \E k \in 1..Len(p.words) : \E i \in 1..Len(text) :
                /\ OccursAt(text, p.words[k], i)
                /\ WordBoundaries(text, i, i + Len(p.words[k]) - 1)
      [] p.kind = "gap" ->
            \E i \in 1..Len(text) : \E j \in 1..Len(text) :
                /\ OccursAt(text, p.words[1], i)
                /\ OccursAt(text, p.words[2], j)
                /\ j >= i + Len(p.words[1])
                /\ \A k \in (i + Len(p.words[1]))..(j - 1) : text[k] # "\n"

\* tag_patterns = {...}, in the order of the dict
tag_patterns ==
    <<
       [tag |-> <<"a", "p", "i">>,
        patterns |-> <<Lit(<<"@", "a", "p", "p", ".">>),
                       Lit(<<"r", "o", "u", "t", "e", "r">>),
                       Lit(<<"e", "n", "d", "p", "o", "i", "n", "t">>),
                       Lit(<<"p", "a", "t", "h">>)>>],
       [tag |-> <<"h", "t", "t", "p", "-", "m", "e", "t", "h", "o", "d", "s">>,
        patterns |-> <<Word(<<<<"g", "e", "t">>, <<"p", "o", "s", "t">>, <<"p", "u", "t">>, <<"d", "e", "l", "e", "t", "e">>, <<"p", "a", "t", "c", "h">>>>)>>],
       [tag |-> <<"p", "y", "d", "a", "n", "t", "i", "c">>,
        patterns |-> <<Lit(<<"p", "y", "d", "a", "n", "t", "i", "c">>),
                       Lit(<<"b", "a", "s", "e", "m", "o", "d", "e", "l">>)>>],
       [tag |-> <<"a", "s", "y", "n", "c">>,
        patterns |-> <<Word(<<<<"a", "s", "y", "n", "c">>>>),
                       Word(<<<<"a", "w", "a", "i", "t">>>>)>>],
       [tag |-> <<"d", "e", "p", "e", "n", "d", "e", "n", "c", "i", "e", "s">>,
        patterns |-> <<Lit(<<"d", "e", "p", "e", "n", "d", "e", "n", "c", "y">>),
                       Lit(<<"d", "e", "p", "e", "n", "d", "s">>)>>],
       [tag |-> <<"s", "e", "c", "u", "r", "i", "t", "y">>,
        patterns |-> <<Lit(<<"s", "e", "c", "u", "r", "i", "t", "y">>),
                       Word(<<<<"a", "u", "t", "h">>>>)>>],
       [tag |-> <<"d", "a", "t", "a", "b", "a", "s", "e">>,
        patterns |-> <<Lit(<<"d", "a", "t", "a", "b", "a", "s", "e">>),
                       Word(<<<<"s", "q", "l">>>>)>>],
       [tag |-> <<"t", "e", "s", "t", "i", "n", "g">>,
        patterns |-> <<Word(<<<<"t", "e", "s", "t">>>>)>>],
       [tag |-> <<"d", "e", "p", "l", "o", "y", "m", "e", "n", "t">>,
        patterns |-> <<Lit(<<"d", "e", "p", "l", "o", "y">>),
                       Lit(<<"d", "o", "c", "k", "e", "r">>)>>],
       [tag |-> <<"v", "a", "l", "i", "d", "a", "t", "i", "o", "n">>,
        patterns |-> <<Lit(<<"v", "a", "l", "i", "d", "a", "t">>),
                       Lit(<<"s", "c", "h", "e", "m", "a">>)>>],
       [tag |-> <<"m", "i", "d", "d", "l", "e", "w", "a", "r", "e">>,
        patterns |-> <<Lit(<<"m", "i", "d", "d", "l", "e", "w", "a", "r", "e">>)>>],
       [tag |-> <<"c", "o", "r", "s">>,
        patterns |-> <<Word(<<<<"c", "o", "r", "s">>>>)>>],
       [tag |-> <<"w", "e", "b", "s", "o", "c", "k", "e", "t">>,
        patterns |-> <<Lit(<<"w", "e", "b", "s", "o", "c", "k", "e", "t">>)>>],
       [tag |-> <<"b", "a", "c", "k", "g", "r", "o", "u", "n", "d", "-", "t", "a", "s", "k", "s">>,
        patterns |-> <<Gap(<<"b", "a", "c", "k", "g", "r", "o", "u", "n", "d">>, <<"t", "a", "s", "k">>)>>],
       [tag |-> <<"f", "i", "l", "e", "-", "u", "p", "l", "o", "a", "d">>,
        patterns |-> <<Gap(<<"f", "i", "l", "e">>, <<"u", "p", "l", "o", "a", "d">>),
                       Lit(<<"u", "p", "l", "o", "a", "d", "f", "i", "l", "e">>)>>]
    >>

\* any(re.search(pattern, content_lower) for pattern in patterns)
AnyPatternMatches(patterns, content_lower) ==
    \E k \in 1..Len(patterns) : Search(patterns[k], content_lower)

\* for tag, patterns in tag_patterns.items(): if any(...): tags.append(tag)
MatchedTags(content_lower) ==
    LET hit == SelectSeq([i \in 1..Len(tag_patterns) |-> i],
                         LAMBDA i : AnyPatternMatches(tag_patterns[i].patterns, content_lower))
    IN  [k \in 1..Len(hit) |-> tag_patterns[hit[k]].tag]

\* re.sub(r'[^\w\s-]', '', section_lower)
re_sub_strip(s) == SelectSeq(s, LAMBDA c : IsWordChar(c) \/ IsReSpace(c) \/ c = "-")

\* .replace(' ', '-')
replace_space(s) == [i \in 1..Len(s) |-> IF s[i] = " " THEN "-" ELSE s[i]]

section_tag(section_lower) == replace_space(re_sub_strip(section_lower))

\* faulty variant of SectionTags: the tag is appended without the two tests
SectionTagsUnguarded(section_lower) == <<section_tag(section_lower)>>
\* if section_lower: ...; if section_tag: tags.append(section_tag)
SectionTags(section_lower) ==
    IF section_lower # <<>> /\ section_tag(section_lower) # <<>>
    THEN <<section_tag(section_lower)>>
    ELSE <<>>

\* the list `tags` when the return statement is reached
tags_list(content, section) ==
    MatchedTags(lower(content)) \o SectionTags(lower(section))

\* faulty variant of ListOfSet: the list is returned as it was built
ListAsBuilt(tags) == {tags}
\* list(set(tags)): the distinct elements of tags, in whatever order the set
\* iterates
ListOfSet(tags) ==
    LET S == Range(tags)
    IN  {f \in [1..Cardinality(S) -> S] : \A i, j \in DOMAIN f : f[i] = f[j] => i = j}

\* the lists extract_tags(content, section) can return
extract_tags(content, section) == ListOfSet(tags_list(content, section))

\* faulty variant of SelfAfterExtractTags: the section is kept on the processor
SelfKeepsSection(self, content, section) == [self EXCEPT !.base_docs_url = section]
\* extract_tags assigns no attribute of self
SelfAfterExtractTags(self, content, section) == self

\* ------------------------------------------------ inputs of the extractor
ContentEmpty == <<>>
ContentRouter == <<"@", "a", "p", "p", ".", "g", "e", "t", " ", "R", "o", "u", "t", "e", "r">>
ContentGetter == <<"g", "e", "t", "t", "e", "r", " ", "t", "e", "s", "t", "s">>
ContentSplit == <<"f", "i", "l", "e", "\n", "u", "p", "l", "o", "a", "d">>
ContentUpload == <<"f", "i", "l", "e", " ", "u", "p", "l", "o", "a", "d">>
SectionEmpty == <<>>
SectionApi == <<"A", "P", "I">>
SectionApiEndpoints == <<"A", "P", "I", " ", "E", "n", "d", "p", "o", "i", "n", "t", "s">>
SectionGettingStarted == <<"G", "e", "t", "t", "i", "n", "g", " ", "S", "t", "a", "r", "t", "e", "d", "!">>
SectionTwoSpaces == <<"A", " ", " ", "B">>
SectionPunctuation == <<"!", "!", "!">>
TagContents == {ContentEmpty,
                ContentRouter,
                ContentGetter,
                ContentSplit,
                ContentUpload}
TagSections == {SectionEmpty,
                SectionApi,
                SectionApiEndpoints,
                SectionGettingStarted,
                SectionTwoSpaces,
                SectionPunctuation}

TagInit ==
    /\ TagsIdle
    /\ ChunkerIdle
    /\ CollectorIdle
    /\ LoaderIdle
    /\ ToolsIdle
    /\ ExtrasIdle

\* one call of extract_tags; the latest earlier call may be remembered
ExtractTags ==
    /\ \E content \in TagContents, section \in TagSections :
          /\ \E out \in extract_tags(content, section) :
                tag_call' = [made |-> TRUE, content |-> content,
                             section |-> section, tags |-> out]
          /\ processor' = SelfAfterExtractTags(processor, content, section)
    /\ tag_memo' \in {tag_memo, tag_call}
    /\ UNCHANGED <<cvars, fvars, lvars, svars, xvars>>

TagNext == ExtractTags

SpecTags == TagInit /\ [][TagNext]_vars

\* ------------------------------------------------ what the claims refer to
\* the vocabulary tags at least one of whose patterns matches the content
TriggeredTags(content) ==
    {tag_patterns[i].tag : i \in {k \in 1..Len(tag_patterns) :
        \E n \in 1..Len(tag_patterns[k].patterns) :
            Search(tag_patterns[k].patterns[n], lower(content))}}

\* the patterns of the table's entry i that match the content
MatchingPatterns(i, content) ==
    {n \in 1..Len(tag_patterns[i].patterns) :
        Search(tag_patterns[i].patterns[n], lower(content))}

\* C15: the list extract_tags returns holds no tag twice, whatever the
\* content and the section.
C15_NoDuplicateTags ==
    tag_call.made =>
        \A i, j \in 1..Len(tag_call.tags) :
            tag_call.tags[i] = tag_call.tags[j] => i = j

\* two patterns of one tag matched the content, and the section's tag is that
\* same vocabulary tag
C15_Witness ==
    /\ tag_call.made
    /\ \E i \in 1..Len(tag_patterns) :
          /\ Cardinality(MatchingPatterns(i, tag_call.content)) >= 2
          /\ tag_call.section # <<>>
          /\ section_tag(lower(tag_call.section)) = tag_patterns[i].tag
    /\ Len(tag_call.tags) = 2

\* a text with each run of whitespace replaced by one hyphen
RECURSIVE CollapseRuns(_, _)
CollapseRuns(s, inRun) ==
    IF s = <<>> THEN <<>>
    ELSE IF IsReSpace(Head(s))
         THEN (IF inRun THEN <<>> ELSE <<"-">>) \o CollapseRuns(Tail(s), TRUE)
         ELSE <<Head(s)>> \o CollapseRuns(Tail(s), FALSE)

\* C16: for a non-empty section the result holds the section's tag, which is
\* the section without the characters outside word characters, whitespace and
\* hyphen, lower-cased, each run of whitespace replaced by a single hyphen;
\* no tag is added for a section that reduces to empty.
C16_SectionTagCollapsesRuns ==
    (tag_call.made /\ tag_call.section # <<>>) =>
        LET expected == CollapseRuns(lower(re_sub_strip(tag_call.section)), FALSE)
        IN  IF expected # <<>>
            THEN expected \in Range(tag_call.tags)
            ELSE Range(tag_call.tags) \subseteq TriggeredTags(tag_call.content)

C18_TagsAreJustified ==
    tag_call.made =>
        LET st == section_tag(lower(tag_call.section))
            fromSection == IF tag_call.section # <<>> /\ st # <<>> THEN {st} ELSE {}
        IN  /\ Range(tag_call.tags) \subseteq TriggeredTags(tag_call.content) \cup fromSection
            /\ TriggeredTags(tag_call.content) = {}
                  => Range(tag_call.tags) \subseteq fromSection
            /\ (tag_call.content = <<>> /\ tag_call.section = <<>>)
                  => tag_call.tags = <<>>

\* content with "getter" and "tests" triggers no whole-word pattern and the
\* result is the section's tag alone; and an empty call gave the empty list
C18_Witness ==
    /\ tag_call.made
    /\ tag_call.content # <<>>
    /\ TriggeredTags(tag_call.content) = {}
    /\ tag_call.section # <<>>
    /\ tag_call.tags = <<section_tag(lower(tag_call.section))>>
    /\ tag_memo.made
    /\ tag_memo.content = <<>> /\ tag_memo.section = <<>>
    /\ tag_memo.tags = <<>>

\* the word w stands in the text as a whole word
WholeWordIn(w, text) ==
    \E i \in 1..Len(text) :
        /\ OccursAt(text, w, i)
        /\ i = 1 \/ ~IsWordChar(text[i - 1])
        /\ i + Len(w) - 1 = Len(text) \/ ~IsWordChar(text[i + Len(w)])

\* the pattern matches the text: a literal anywhere, a whole-word pattern
\* only as a whole word
Matches(p, text) ==
    CASE p.kind = "lit" -> \E i \in 1..Len(text) : OccursAt(text, p.words[1], i)
      [] p.kind = "word" -> \E k \in 1..Len(p.words) : WholeWordIn(p.words[k], text)
      [] p.kind = "gap" -> Search(p, text)

\* C27: each of the fifteen vocabulary tags is in the result whenever one of
\* its patterns matches the lower-cased content, whatever the section; a
\* whole-word pattern matches only a whole word, so a tag none of whose
\* patterns matches is in the result only as the section's tag.
C27_TagWheneverPatternMatches ==
    tag_call.made =>
        /\ Len(tag_patterns) = 15
        /\ \A i \in 1..Len(tag_patterns) :
              LET hit == \E n \in 1..Len(tag_patterns[i].patterns) :
                            Matches(tag_patterns[i].patterns[n], lower(tag_call.content))
                  t == tag_patterns[i].tag
              IN  /\ hit => t \in Range(tag_call.tags)
                  /\ (~hit /\ t \in Range(tag_call.tags)) =>
                        t = section_tag(lower(tag_call.section))

\* "get" and "test" stand inside longer words and trigger nothing, while an
\* earlier call with "Router" in capitals and "get" as a word gave api and
\* http-methods
C27_Witness ==
    /\ tag_call.made
    /\ \E i \in 1..Len(tag_call.content) : OccursAt(tag_call.content, <<"g", "e", "t">>, i)
    /\ ~WholeWordIn(<<"g", "e", "t">>, tag_call.content)
    /\ <<"h", "t", "t", "p", "-", "m", "e", "t", "h", "o", "d", "s">> \notin Range(tag_call.tags)
    /\ tag_memo.made
    /\ tag_memo.content # lower(tag_memo.content)
    /\ WholeWordIn(<<"g", "e", "t">>, tag_memo.content)
    /\ {<<"a", "p", "i">>, <<"h", "t", "t", "p", "-", "m", "e", "t", "h", "o", "d", "s">>} \subseteq Range(tag_memo.tags)

\* ====================================================== the MCP server tools
\* FastAPIMCPServer's four tools.  The server is constructed with any
\* ISearchEngine and IDataLoader: main.py passes an ElasticsearchEngine and a
\* FastAPIDataLoader, the tests pass stand-ins that return or raise at will.
\* A tool call is one step, from the request to the value the caller gets.

\* source["content"][:500] + "..." if len(source["content"]) > 500 else ...
TruncLimit == 500

\* faulty variant of Truncate: content of exactly 500 characters is cut too
TruncateAtLeast(content) ==
    IF Len(content) >= TruncLimit
    THEN SubSeq(content, 1, TruncLimit) \o <<".", ".", ".">>
    ELSE content
\* (content[:500] + "...") if len(content) > 500 else content
Truncate(content) ==
    IF Len(content) > TruncLimit
    THEN SubSeq(content, 1, TruncLimit) \o <<".", ".", ".">>
    ELSE content

\* the record built for one hit (lines 61-77); "highlights" only when the
\* hit's highlight is non-empty
FormatHit(hit) ==
    LET source == hit._source
        result == [id         |-> source.id,
                   title      |-> source.title,
                   section    |-> source.section,
                   subsection |-> source.subsection,
                   url        |-> source.url,
                   tags       |-> source.tags,
                   score      |-> hit._score,
                   content    |-> Truncate(source.content)]
    IN  IF hit.highlight # <<>>
        THEN result @@ ("highlights" :> hit.highlight)
        ELSE result

\* {"query": ..., "total_results": len(formatted_results), "results": ...}
SearchResult(query, hits) ==
    [query         |-> query,
     total_results |-> Len(hits),
     results       |-> [i \in 1..Len(hits) |-> FormatHit(hits[i])]]

\* {"error": f"Search failed: {str(e)}"}
SearchFailed(m) == [error |-> <<"Search failed: ", m>>]

\* {"error": f"Document with ID '{doc_id}' not found"}
NotFound(doc_id) == [error |-> <<"Document with ID '", doc_id, "' not found">>]

\* faulty variant of GetFailed: a raising lookup reported as not found
GetFailedAsAbsent(doc_id, m) == NotFound(doc_id)
\* {"error": f"Failed to get document: {str(e)}"}
GetFailed(doc_id, m) == [error |-> <<"Failed to get document: ", m>>]

\* what a call of the gateway or of the Elasticsearch client came to
Returned(hits, doc) == [raised |-> FALSE, msg |-> "", hits |-> hits, doc |-> doc]
Raised(m) == [raised |-> TRUE, msg |-> m, hits |-> <<>>, doc |-> NoResult]

\* None, and a document without fields: the two values `if doc:` rejects
NoneDoc == NoResult
EmptyDoc == [x \in {} |-> x]
Truthy(doc) == doc # NoneDoc /\ doc # EmptyDoc

\* ElasticsearchEngine.search_documents: the hits of es.search, and [] when
\* es.search raises
search_documents(o) == IF o.raised THEN Returned(<<>>, NoneDoc) ELSE Returned(o.hits, NoneDoc)

\* ElasticsearchEngine.get_document_by_id: response["_source"], and None when
\* es.get raises
get_document_by_id(o) == IF o.raised THEN Returned(<<>>, NoneDoc) ELSE Returned(<<>>, o.doc)

\* the body of search_fastapi_docs, given what search_documents came to
search_fastapi_docs(query, gw) ==
    IF gw.raised THEN SearchFailed(gw.msg) ELSE SearchResult(query, gw.hits)

\* the body of get_fastapi_doc_by_id, given what get_document_by_id came to
get_fastapi_doc_by_id(doc_id, gw) ==
    IF gw.raised THEN GetFailed(doc_id, gw.msg)
    ELSE IF Truthy(gw.doc) THEN gw.doc
    ELSE NotFound(doc_id)

\* get_available_tags of src/mcp_server.py
AvailableTags ==
    <<
       [name |-> <<"a", "p", "i">>,
        description |-> "API endpoints and routing"],
       [name |-> <<"h", "t", "t", "p", "-", "m", "e", "t", "h", "o", "d", "s">>,
        description |-> "HTTP methods (GET, POST, PUT, DELETE, etc.)"],
       [name |-> <<"p", "y", "d", "a", "n", "t", "i", "c">>,
        description |-> "Pydantic models and validation"],
       [name |-> <<"a", "s", "y", "n", "c">>,
        description |-> "Asynchronous programming"],
       [name |-> <<"d", "e", "p", "e", "n", "d", "e", "n", "c", "i", "e", "s">>,
        description |-> "Dependency injection"],
       [name |-> <<"s", "e", "c", "u", "r", "i", "t", "y">>,
        description |-> "Authentication and authorization"],
       [name |-> <<"d", "a", "t", "a", "b", "a", "s", "e">>,
        description |-> "Database integration"],
       [name |-> <<"t", "e", "s", "t", "i", "n", "g">>,
        description |-> "Testing FastAPI applications"],
       [name |-> <<"d", "e", "p", "l", "o", "y", "m", "e", "n", "t">>,
        description |-> "Deployment and Docker"],
       [name |-> <<"v", "a", "l", "i", "d", "a", "t", "i", "o", "n">>,
        description |-> "Data validation and schemas"],
       [name |-> <<"m", "i", "d", "d", "l", "e", "w", "a", "r", "e">>,
        description |-> "Middleware components"],
       [name |-> <<"c", "o", "r", "s">>,
        description |-> "Cross-Origin Resource Sharing"],
       [name |-> <<"w", "e", "b", "s", "o", "c", "k", "e", "t">>,
        description |-> "WebSocket connections"],
       [name |-> <<"b", "a", "c", "k", "g", "r", "o", "u", "n", "d", "-", "t", "a", "s", "k", "s">>,
        description |-> "Background task processing"],
       [name |-> <<"f", "i", "l", "e", "-", "u", "p", "l", "o", "a", "d">>,
        description |-> "File upload handling"]
    >>

\* get_available_tags of fastapi_mcp_server.py
MonolithAvailableTags ==
    <<
       [name |-> <<"a", "p", "i">>,
        description |-> "API endpoints and routing"],
       [name |-> <<"h", "t", "t", "p", "-", "m", "e", "t", "h", "o", "d", "s">>,
        description |-> "HTTP methods (GET, POST, PUT, DELETE, etc.)"],
       [name |-> <<"p", "y", "d", "a", "n", "t", "i", "c">>,
        description |-> "Pydantic models and validation"],
       [name |-> <<"a", "s", "y", "n", "c">>,
        description |-> "Asynchronous programming"],
       [name |-> <<"d", "e", "p", "e", "n", "d", "e", "n", "c", "i", "e", "s">>,
        description |-> "Dependency injection"],
       [name |-> <<"s", "e", "c", "u", "r", "i", "t", "y">>,
        description |-> "Authentication and authorization"],
       [name |-> <<"d", "a", "t", "a", "b", "a", "s", "e">>,
        description |-> "Database integration"],
       [name |-> <<"t", "e", "s", "t", "i", "n", "g">>,
        description |-> "Testing FastAPI applications"],
       [name |-> <<"d", "e", "p", "l", "o", "y", "m", "e", "n", "t">>,
        description |-> "Deployment and Docker"]
    >>

ToolModules == {"src.mcp_server", "fastapi_mcp_server"}

get_available_tags(module) ==
    [tags |-> IF module = "src.mcp_server" THEN AvailableTags ELSE MonolithAvailableTags]

\* ---------------------------------------------------- inputs of the tools
ShortContent == <<"F", "a", "s", "t">>
Content500 == Rep("a", TruncLimit)
Content501 == Rep("a", TruncLimit) \o <<"b">>

StoredDoc(id, content) ==
    [id |-> id, title |-> "Intro", section |-> "Intro", subsection |-> "",
     url |-> BaseDocsUrl, tags |-> {"api"}, content |-> content]

ToolDocs ==
    {StoredDoc("d1", ShortContent), StoredDoc("d2", Content500), StoredDoc("d3", Content501)}

DocIds == {"d1", "d2", "d3", "zz"}
Queries == {"router"}
Highlights == {<<>>, <<"<em>router</em>">>}

Hit(d, h) == [_id |-> d.id, _score |-> 1, _source |-> d, highlight |-> h]

\* the hit lists over the documents D: some of them, each once, in some order
HitLists(D) ==
    UNION {{f \in [1..n -> {Hit(d, h) : d \in D, h \in Highlights}] :
                \A i, j \in 1..n : f[i]._id = f[j]._id => i = j} : n \in 0..Cardinality(D)}

\* what IDataLoader.refresh_data can return
LoaderResults ==
    {NoDocumentsResult} \cup {ErrorResult(m) : m \in Msgs} \cup {SuccessResult(r) : r \in Repos}

ToolInit ==
    /\ search_engine \in {"ElasticsearchEngine", "injected"}
    /\ data_loader \in {"FastAPIDataLoader", "injected"}
    /\ index \in SUBSET ToolDocs
    /\ call = NoCall
    /\ ChunkerIdle
    /\ CollectorIdle
    /\ LoaderIdle
    /\ TagsIdle
    /\ ExtrasIdle

ToolCall(tool, arg, es_o, gw_o, result, backend_calls) ==
    [tool |-> tool, module |-> "src.mcp_server", pc |-> "returned", arg |-> arg,
     es_raised |-> es_o.raised, gw_raised |-> gw_o.raised,
     msg |-> IF es_o.raised THEN es_o.msg ELSE gw_o.msg,
     hits |-> gw_o.hits, doc |-> gw_o.doc, result |-> result,
     backend_calls |-> backend_calls]

\* search_fastapi_docs, the gateway's search returning hits
SearchReturns ==
    /\ \E query \in Queries :
       \E hits \in IF search_engine = "ElasticsearchEngine"
                   THEN HitLists(index) ELSE HitLists(ToolDocs) :
          LET es_o == Returned(hits, NoneDoc)
              gw_o == IF search_engine = "ElasticsearchEngine"
                      THEN search_documents(es_o) ELSE es_o
          IN  call' = ToolCall("search_fastapi_docs", query, es_o, gw_o,
                               search_fastapi_docs(query, gw_o), <<"search_documents">>)
    /\ UNCHANGED <<search_engine, data_loader, index>>
    /\ UNCHANGED <<cvars, fvars, lvars, tvars, xvars>>

\* search_fastapi_docs over the ElasticsearchEngine, es.search raising
SearchEsRaises ==
    /\ search_engine = "ElasticsearchEngine"
    /\ \E query \in Queries, m \in Msgs :
          LET es_o == Raised(m)
              gw_o == search_documents(es_o)
          IN  call' = ToolCall("search_fastapi_docs", query, es_o, gw_o,
                               search_fastapi_docs(query, gw_o), <<"search_documents">>)
    /\ UNCHANGED <<search_engine, data_loader, index>>
    /\ UNCHANGED <<cvars, fvars, lvars, tvars, xvars>>

\* search_fastapi_docs over an injected gateway whose search_documents raises
SearchGatewayRaises ==
    /\ search_engine = "injected"
    /\ \E query \in Queries, m \in Msgs :
          LET gw_o == Raised(m)
          IN  call' = ToolCall("search_fastapi_docs", query, Returned(<<>>, NoneDoc), gw_o,
                               search_fastapi_docs(query, gw_o), <<"search_documents">>)
    /\ UNCHANGED <<search_engine, data_loader, index>>
    /\ UNCHANGED <<cvars, fvars, lvars, tvars, xvars>>

\* get_fastapi_doc_by_id, the gateway's lookup returning: the stored document
\* from the ElasticsearchEngine; a document, {} or None from an injected one
GetByIdReturns ==
    /\ \E doc_id \in DocIds :
       \E doc \in IF search_engine = "ElasticsearchEngine"
                  THEN {d \in index : d.id = doc_id}
                  ELSE {d \in ToolDocs : d.id = doc_id} \cup {NoneDoc, EmptyDoc} :
          LET es_o == Returned(<<>>, doc)
              gw_o == IF search_engine = "ElasticsearchEngine"
                      THEN get_document_by_id(es_o) ELSE es_o
          IN  call' = ToolCall("get_fastapi_doc_by_id", doc_id, es_o, gw_o,
                               get_fastapi_doc_by_id(doc_id, gw_o), <<"get_document_by_id">>)
    /\ UNCHANGED <<search_engine, data_loader, index>>
    /\ UNCHANGED <<cvars, fvars, lvars, tvars, xvars>>

\* get_fastapi_doc_by_id over the ElasticsearchEngine, es.get raising:
\* NotFoundError for an id the index lacks, or a failure of the request
GetByIdEsRaises ==
    /\ search_engine = "ElasticsearchEngine"
    /\ \E doc_id \in DocIds :
       \E m \in Msgs \cup (IF \E d \in index : d.id = doc_id THEN {} ELSE {"NotFoundError"}) :
          LET es_o == Raised(m)
              gw_o == get_document_by_id(es_o)
          IN  call' = ToolCall("get_fastapi_doc_by_id", doc_id, es_o, gw_o,
                               get_fastapi_doc_by_id(doc_id, gw_o), <<"get_document_by_id">>)
    /\ UNCHANGED <<search_engine, data_loader, index>>
    /\ UNCHANGED <<cvars, fvars, lvars, tvars, xvars>>

\* get_fastapi_doc_by_id over an injected gateway whose lookup raises
GetByIdGatewayRaises ==
    /\ search_engine = "injected"
    /\ \E doc_id \in DocIds, m \in Msgs :
          LET gw_o == Raised(m)
          IN  call' = ToolCall("get_fastapi_doc_by_id", doc_id, Returned(<<>>, NoneDoc), gw_o,
                               get_fastapi_doc_by_id(doc_id, gw_o), <<"get_document_by_id">>)
    /\ UNCHANGED <<search_engine, data_loader, index>>
    /\ UNCHANGED <<cvars, fvars, lvars, tvars, xvars>>

\* refresh_fastapi_docs: return await self.data_loader.refresh_data().  The
\* FastAPIDataLoader rebuilds the index as far as it gets; an injected loader
\* leaves it alone.
RefreshReturns ==
    /\ \E r \in LoaderResults :
          /\ call' = [ToolCall("refresh_fastapi_docs", "", Returned(<<>>, NoneDoc),
                               Returned(<<>>, NoneDoc), r, <<"refresh_data">>)
                        EXCEPT !.msg = IF "error" \in DOMAIN r THEN r.error[Len(r.error)] ELSE ""]
          /\ IF data_loader = "FastAPIDataLoader" /\ r # NoDocumentsResult
             THEN index' \in SUBSET ToolDocs
             ELSE index' = index
    /\ UNCHANGED <<search_engine, data_loader>>
    /\ UNCHANGED <<cvars, fvars, lvars, tvars, xvars>>

\* refresh_fastapi_docs over an injected loader whose refresh_data raises:
\* the handler has no try, the exception reaches the caller
RefreshRaises ==
    /\ data_loader = "injected"
    /\ \E m \in Msgs :
          call' = [ToolCall("refresh_fastapi_docs", "", Returned(<<>>, NoneDoc),
                            Returned(<<>>, NoneDoc), NoResult, <<"refresh_data">>)
                     EXCEPT !.pc = "raised", !.msg = m]
    /\ UNCHANGED <<search_engine, data_loader, index>>
    /\ UNCHANGED <<cvars, fvars, lvars, tvars, xvars>>

\* get_available_tags, of either module
ListTags ==
    /\ \E module \in ToolModules :
          call' = [ToolCall("get_available_tags", "", Returned(<<>>, NoneDoc),
                            Returned(<<>>, NoneDoc), get_available_tags(module), <<>>)
                     EXCEPT !.module = module]
    /\ UNCHANGED <<search_engine, data_loader, index>>
    /\ UNCHANGED <<cvars, fvars, lvars, tvars, xvars>>

ToolNext ==
    \/ SearchReturns
    \/ SearchEsRaises
    \/ SearchGatewayRaises
    \/ GetByIdReturns
    \/ GetByIdEsRaises
    \/ GetByIdGatewayRaises
    \/ RefreshReturns
    \/ RefreshRaises
    \/ ListTags

SpecTools == ToolInit /\ [][ToolNext]_vars

\* ------------------------------------------------ what the claims refer to
\* C11: with the ElasticsearchEngine as gateway, a search whose Elasticsearch
\* request fails with message m makes the search tool return
\* {error: "Search failed: m"}.
C11_DeployedSearchFailureReported ==
    (/\ call.tool = "search_fastapi_docs"
     /\ search_engine = "ElasticsearchEngine"
     /\ call.es_raised)
    => /\ call.pc = "returned"
       /\ call.result = [error |-> <<"Search failed: ", call.msg>>]

\* C12 as stated: the get-by-id tool returns the not-found message both when
\* the gateway reports no document and when the gateway call raises, and the
\* document otherwise.
C12_AbsentAndRaisedBothNotFound ==
    call.tool = "get_fastapi_doc_by_id" =>
        IF call.gw_raised \/ call.es_raised \/ ~Truthy(call.doc)
        THEN call.result = [error |-> <<"Document with ID '", call.arg, "' not found">>]
        ELSE call.result = call.doc

\* C12, amended: the get-by-id tool returns the not-found message when the
\* gateway returns no document, which the ElasticsearchEngine does both for
\* an absent id and for a failed lookup; when the gateway call itself raises
\* with message m it returns {error: "Failed to get document: m"}; a document
\* the gateway returns is returned unchanged.
C12_NotFoundWhenNoDocument ==
    call.tool = "get_fastapi_doc_by_id" =>
        /\ call.pc = "returned"
        /\ call.gw_raised =>
              call.result = [error |-> <<"Failed to get document: ", call.msg>>]
        /\ (~call.gw_raised /\ ~Truthy(call.doc)) =>
              call.result = [error |-> <<"Document with ID '", call.arg, "' not found">>]
        /\ (~call.gw_raised /\ Truthy(call.doc)) => call.result = call.doc
        /\ (search_engine = "ElasticsearchEngine" /\ call.es_raised) =>
              /\ ~call.gw_raised
              /\ call.result = [error |-> <<"Document with ID '", call.arg, "' not found">>]

\* a gateway whose lookup raised, answered with the failure message
C12_Witness ==
    /\ call.tool = "get_fastapi_doc_by_id"
    /\ call.gw_raised
    /\ call.msg = "ES error"
    /\ call.result = [error |-> <<"Failed to get document: ", "ES error">>]

\* C13: no tool call ends in an exception at its caller, and a call during
\* which the gateway or the loader failed returns a record with an error.
C13_NoToolPropagates ==
    call.tool # "none" =>
        /\ call.pc = "returned"
        /\ (call.es_raised \/ call.gw_raised) => "error" \in DOMAIN call.result

\* C14: each result of the search tool carries its hit's content unchanged
\* when that has at most 500 characters, else its first 500 characters and
\* "..."; no returned content is longer than 503 characters.
C14_ContentTruncatedTo500 ==
    (call.tool = "search_fastapi_docs" /\ ~call.gw_raised) =>
        /\ Len(call.result.results) = Len(call.hits)
        /\ \A i \in 1..Len(call.hits) :
              LET stored == call.hits[i]._source.content
                  shown  == call.result.results[i].content
              IN  /\ Len(stored) <= 500 => shown = stored
                  /\ Len(stored) > 500 =>
                        shown = SubSeq(stored, 1, 500) \o <<".", ".", ".">>
                  /\ Len(shown) <= 503

\* a hit of exactly 500 characters came back whole, one of 501 came back as
\* 503
C14_Witness ==
    /\ call.tool = "search_fastapi_docs"
    /\ Len(call.hits) = 2
    /\ Len(call.hits[1]._source.content) = 500
    /\ Len(call.result.results[1].content) = 500
    /\ Len(call.hits[2]._source.content) = 501
    /\ Len(call.result.results[2].content) = 503

\* C20: the list-tags tool returns the fifteen tag names of the extractor's
\* pattern table, each with a description, and calls neither the gateway nor
\* the loader.
C20_ListTagsIsPatternTable ==
    call.tool = "get_available_tags" =>
        /\ {call.result.tags[i].name : i \in 1..Len(call.result.tags)}
              = {tag_patterns[i].tag : i \in 1..Len(tag_patterns)}
        /\ Len(call.result.tags) = 15
        /\ \A i \in 1..Len(call.result.tags) : call.result.tags[i].description # ""
        /\ call.backend_calls = <<>>

\* ============================================ the two chunkers side by side
\* fastapi_mcp_server.py's FastAPIDocsFetcher._process_markdown_file and
\* _extract_tags, and FastAPIDocumentProcessor's process_markdown_file and
\* extract_tags, given the same file element by element.

\* rel_path = file_path.relative_to(repo_path / "docs" / "en"), as a text
RelPath(dir, stem) == (IF dir = "" THEN <<>> ELSE <<dir, "/">>) \o stem \o <<".md">>

\* f"{rel_path}#{len(chunks)}"
MonoChunkId(rel_path, n) == rel_path \o <<"#">> \o Str(n)

\* the words _extract_tags looks for with `in`, tag by tag
MonoTagWords ==
    <<
       [tag |-> <<"a", "p", "i">>,
        words |-> <<<<"@", "a", "p", "p", ".">>, <<"r", "o", "u", "t", "e", "r">>, <<"e", "n", "d", "p", "o", "i", "n", "t">>, <<"p", "a", "t", "h">>>>],
       [tag |-> <<"h", "t", "t", "p", "-", "m", "e", "t", "h", "o", "d", "s">>,
        words |-> <<<<"g", "e", "t">>, <<"p", "o", "s", "t">>, <<"p", "u", "t">>, <<"d", "e", "l", "e", "t", "e">>, <<"p", "a", "t", "c", "h">>>>],
       [tag |-> <<"p", "y", "d", "a", "n", "t", "i", "c">>,
        words |-> <<<<"p", "y", "d", "a", "n", "t", "i", "c">>, <<"b", "a", "s", "e", "m", "o", "d", "e", "l">>>>],
       [tag |-> <<"a", "s", "y", "n", "c">>,
        words |-> <<<<"a", "s", "y", "n", "c">>, <<"a", "w", "a", "i", "t">>>>],
       [tag |-> <<"d", "e", "p", "e", "n", "d", "e", "n", "c", "i", "e", "s">>,
        words |-> <<<<"d", "e", "p", "e", "n", "d", "e", "n", "c", "y">>, <<"d", "e", "p", "e", "n", "d", "s">>>>],
       [tag |-> <<"s", "e", "c", "u", "r", "i", "t", "y">>,
        words |-> <<<<"s", "e", "c", "u", "r", "i", "t", "y">>, <<"a", "u", "t", "h">>>>],
       [tag |-> <<"d", "a", "t", "a", "b", "a", "s", "e">>,
        words |-> <<<<"d", "a", "t", "a", "b", "a", "s", "e">>, <<"s", "q", "l">>>>],
       [tag |-> <<"t", "e", "s", "t", "i", "n", "g">>,
        words |-> <<<<"t", "e", "s", "t">>>>],
       [tag |-> <<"d", "e", "p", "l", "o", "y", "m", "e", "n", "t">>,
        words |-> <<<<"d", "e", "p", "l", "o", "y">>, <<"d", "o", "c", "k", "e", "r">>>>]
    >>

\* word in content_lower
Contains(text, w) == \E i \in 1..Len(text) : OccursAt(text, w, i)

\* the list `tags` of _extract_tags when its return statement is reached
mono_tags_list(content, section) ==
    LET content_lower == lower(content)
        section_lower == lower(section)
        hit == SelectSeq([i \in 1..Len(MonoTagWords) |-> i],
                   LAMBDA i : \E k \in 1..Len(MonoTagWords[i].words) :
                                 Contains(content_lower, MonoTagWords[i].words[k]))
    IN  [k \in 1..Len(hit) |-> MonoTagWords[hit[k]].tag]
        \o (IF section_lower # <<>> THEN <<replace_space(section_lower)>> ELSE <<>>)

\* the content branch of _process_markdown_file; tags as the set of the
\* returned list
MonoContentBranch(w, el, dir, stem, url) ==
    LET text_content == get_text_strip(el)
    IN  IF Len(text_content) > MinContentLen
        THEN [w EXCEPT !.chunks = Append(@,
                [id         |-> MonoChunkId(RelPath(dir, stem), Len(w.chunks)),
                 title      |-> Title(w.current_section, w.current_subsection, stem),
                 content    |-> text_content,
                 url        |-> url,
                 section    |-> w.current_section,
                 subsection |-> w.current_subsection,
                 tags       |-> Range(mono_tags_list(text_content, w.current_section))])]
        ELSE w

\* one iteration of the loop of _process_markdown_file; its heading branch is
\* the heading branch of process_markdown_file, line for line
MonoLoopBody(w, el, dir, stem, url) ==
    IF el.name \in HeadingNames THEN HeadingBranch(w, el)
    ELSE IF el.name \in ContentNames THEN MonoContentBranch(w, el, dir, stem, url)
    ELSE w

\* tags = self.extract_tags(text_content, current_section), as a set
WithTags(chunk) == chunk @@ ("tags" :> Range(tags_list(chunk.content, chunk.section)))

\* one iteration of the loop of process_markdown_file, the chunk it emits
\* carrying its tags
ModularLoopBody(w, el, stem, url) ==
    LET v == LoopBody(w, el, stem, url)
    IN  IF Len(v.chunks) > Len(w.chunks)
        THEN [v EXCEPT !.chunks[Len(v.chunks)] = WithTags(@)]
        ELSE v

\* ------------------------------------------------------------ inputs
TwinHeadingNames == {"h2", "h3"}
TwinHeadingTexts == {<<"A", "P", "I">>, <<"Q", " ", "&", " ", "A">>}
TwinPlain == Rep("x", MinContentLen + 1)
TwinGetter == <<"g", "e", "t", "t", "e", "r", " ">> \o Rep("x", MinContentLen)
TwinSocket == <<"w", "e", "b", "s", "o", "c", "k", "e", "t", " ">> \o Rep("x", MinContentLen)
TwinContentTexts == {TwinPlain, TwinGetter, TwinSocket}

TwinInit ==
    /\ \E d \in Dirs, stem \in Stems : twin = [NoTwin EXCEPT !.dir = d, !.stem = stem]
    /\ proc = NoProcess
    /\ tasks = [t \in Tasks |-> IdleTask]
    /\ cluster = NoIndex
    /\ obs = NoObs
    /\ ChunkerIdle
    /\ CollectorIdle
    /\ LoaderIdle
    /\ TagsIdle
    /\ ToolsIdle

TwinStep(el) ==
    LET url == FileUrl(twin.dir, twin.stem)
    IN  twin' = [twin EXCEPT
                   !.elements = Append(@, el),
                   !.modular = ModularLoopBody(@, el, twin.stem, url),
                   !.monolith = MonoLoopBody(@, el, twin.dir, twin.stem, url)]

\* both loops meet a heading
TwinHeading ==
    /\ Len(twin.elements) < MaxBlocks
    /\ \E name \in TwinHeadingNames, text \in TwinHeadingTexts :
          TwinStep([name |-> name, text |-> text])
    /\ UNCHANGED <<proc, tasks, cluster, obs>>
    /\ UNCHANGED <<cvars, fvars, lvars, tvars, svars>>

\* both loops meet a paragraph
TwinContent ==
    /\ Len(twin.elements) < MaxBlocks
    /\ \E text \in TwinContentTexts : TwinStep([name |-> "p", text |-> text])
    /\ UNCHANGED <<proc, tasks, cluster, obs>>
    /\ UNCHANGED <<cvars, fvars, lvars, tvars, svars>>

TwinNext == TwinHeading \/ TwinContent

SpecTwin == TwinInit /\ [][TwinNext]_vars

\* C22: for every document the two implementations emit the same chunk
\* sequence: as many chunks, with the same ids, sections, subsections,
\* contents and tag sets.
C22_SameChunkSequence ==
    /\ Len(twin.modular.chunks) = Len(twin.monolith.chunks)
    /\ \A k \in 1..Len(twin.modular.chunks) :
          LET a == twin.modular.chunks[k]
              b == twin.monolith.chunks[k]
          IN  /\ a.id = b.id
              /\ a.section = b.section
              /\ a.subsection = b.subsection
              /\ a.content = b.content
              /\ a.tags = b.tags

\* ===================================================== the server process
\* main.py: initialize_server, startup_initialization and main. proc.open is
\* the set of connection handles that have been opened and not closed.

\* FastAPIDocumentFetcher.__init__: self.client = httpx.AsyncClient(timeout=30.0)
FetcherClient == "fetcher.client"
\* ElasticsearchEngine.__init__ called by initialize_server: self.es
ServerEs == "search_engine.es"
\* ElasticsearchEngine.__init__ called by startup_initialization: es.es
StartupEs == "startup.es"

MainInit ==
    /\ proc = NoProcess
    /\ twin = NoTwin
    /\ tasks = [t \in Tasks |-> IdleTask]
    /\ cluster = NoIndex
    /\ obs = NoObs
    /\ ChunkerIdle
    /\ CollectorIdle
    /\ LoaderIdle
    /\ TagsIdle
    /\ ToolsIdle

MainFrame ==
    /\ UNCHANGED <<twin, tasks, cluster, obs>>
    /\ UNCHANGED <<cvars, fvars, lvars, tvars, svars>>

\* mcp_server = await initialize_server()
InitializeServer ==
    /\ proc.pc = "idle"
    /\ proc' = [proc EXCEPT !.pc = "initialized",
                            !.open = @ \cup {FetcherClient, ServerEs}]
    /\ MainFrame

\* es = ElasticsearchEngine(config.ELASTICSEARCH_URL, config.INDEX_NAME)
StartupOpensClient ==
    /\ proc.pc = "initialized"
    /\ proc' = [proc EXCEPT !.pc = "exists", !.open = @ \cup {StartupEs}]
    /\ MainFrame

\* es.es.indices.exists(...) returns True
StartupIndexExists ==
    /\ proc.pc = "exists"
    /\ proc' = [proc EXCEPT !.pc = "close_es",
                            !.log = Append(@, [level |-> "info", text |-> "Index exists, server ready"])]
    /\ MainFrame

\* es.es.indices.exists(...) returns False
StartupIndexMissing ==
    /\ proc.pc = "exists"
    /\ proc' = [proc EXCEPT !.pc = "load_data",
                            !.log = Append(@, [level |-> "info", text |-> "Index doesn't exist, loading documentation..."])]
    /\ MainFrame

\* es.es.indices.exists(...) raises: the except clause logs, and the
\* statements after the call, es.close() among them, are not run
StartupExistsRaises ==
    /\ proc.pc = "exists"
    /\ \E m \in Msgs :
          proc' = [proc EXCEPT !.pc = "run",
                               !.log = Append(@, [level |-> "warning", text |-> m])]
    /\ MainFrame

\* result = await mcp_server.data_loader.load_data(), and the logging of it
StartupLoadData ==
    /\ proc.pc = "load_data"
    /\ \E result \in LoaderResults :
          proc' = [proc EXCEPT !.pc = "close_es",
                               !.log = Append(@, [level  |-> IF "error" \in DOMAIN result
                                                             THEN "error" ELSE "info",
                                                  result |-> result])]
    /\ MainFrame

\* await es.close() returns
StartupClosesClient ==
    /\ proc.pc = "close_es"
    /\ proc' = [proc EXCEPT !.pc = "run", !.open = @ \ {StartupEs}]
    /\ MainFrame

\* await es.close() raises: the except clause logs
StartupCloseRaises ==
    /\ proc.pc = "close_es"
    /\ \E m \in Msgs :
          proc' = [proc EXCEPT !.pc = "run",
                               !.log = Append(@, [level |-> "warning", text |-> m])]
    /\ MainFrame

\* mcp_server.run() serves one more request
Serve ==
    /\ proc.pc = "run"
    /\ proc.served < MaxLoads
    /\ proc' = [proc EXCEPT !.served = @ + 1]
    /\ MainFrame

\* mcp_server.run() returns
RunReturns ==
    /\ proc.pc = "run"
    /\ proc' = [proc EXCEPT !.pc = "finally",
                            !.log = Append(@, [level |-> "exit", text |-> "returned"])]
    /\ MainFrame

\* mcp_server.run() raises
RunRaises ==
    /\ proc.pc = "run"
    /\ proc' = [proc EXCEPT !.pc = "finally",
                            !.log = Append(@, [level |-> "exit", text |-> "raised"])]
    /\ MainFrame

\* finally: asyncio.run(mcp_server.close()), which awaits
\* self.search_engine.close() and nothing else
ServerCloses ==
    /\ proc.pc = "finally"
    /\ proc' = [proc EXCEPT !.pc = "exited", !.open = @ \ {ServerEs}]
    /\ MainFrame

\* finally: mcp_server.close() raises
ServerCloseRaises ==
    /\ proc.pc = "finally"
    /\ \E m \in Msgs :
          proc' = [proc EXCEPT !.pc = "exited",
                               !.log = Append(@, [level |-> "exit", text |-> m])]
    /\ MainFrame

MainNext ==
    \/ InitializeServer
    \/ StartupOpensClient
    \/ StartupIndexExists
    \/ StartupIndexMissing
    \/ StartupExistsRaises
    \/ StartupLoadData
    \/ StartupClosesClient
    \/ StartupCloseRaises
    \/ Serve
    \/ RunReturns
    \/ RunRaises
    \/ ServerCloses
    \/ ServerCloseRaises

SpecMain == MainInit /\ [][MainNext]_vars

\* C21: once the process has shut down, every connection handle it opened
\* (the fetcher's HTTP client and both Elasticsearch clients) has been closed.
C21_HandlesClosedAtShutdown == proc.pc = "exited" => proc.open = {}

\* ================================================== overlapping refreshes
\* Two load_data coroutines of the one FastAPIDataLoader, run by the event
\* loop over the one index. A coroutine gives up control only where an await
\* suspends: while extract_documents reads the files and at each request to
\* Elasticsearch. clone_or_update_repo has no such point.

\* a chunk of a second file, docs/en/a.md
DocD == [id |-> ChunkId(<<"a">>, 0), url |-> FileUrl("", <<"a">>)]

\* what extract_documents can return to a coroutine (the working copy is
\* pulled by each of them)
ConcRepos == {<<>>, <<DocA>>, <<DocD>>, <<DocA, DocD>>}

\* the index left by an earlier load of docs/en/i.md
OldIndex == EsBulk(NoIndex, BuildActions(<<DocA>>, 0), {1})

\* what a reader of the index gets: whether it is there, and the chunks in it
Content(e) == [exists |-> e.exists, docs |-> {[id |-> d.id, url |-> d.url] : d \in e.docs}]

Running(t) == tasks[t].pc \notin {"idle", "done"}

ConcInit ==
    /\ tasks = [t \in Tasks |-> IdleTask]
    /\ cluster \in {NoIndex, OldIndex}
    /\ obs = NoObs
    /\ twin = NoTwin
    /\ proc = NoProcess
    /\ ChunkerIdle
    /\ CollectorIdle
    /\ LoaderIdle
    /\ TagsIdle
    /\ ToolsIdle

ConcFrame ==
    /\ UNCHANGED <<twin, proc>>
    /\ UNCHANGED <<cvars, fvars, lvars, tvars, svars>>

\* the except clause of load_data: return {"error": ...}
Fail(t, m) == tasks' = [tasks EXCEPT ![t].pc = "done", ![t].result = ErrorResult(m)]

\* load_data is called and clone_or_update_repo returns
ConcClone ==
    /\ \E t \in Tasks :
          /\ tasks[t].pc = "idle"
          /\ tasks' = [tasks EXCEPT ![t].pc = "extract", ![t].es0 = cluster]
    /\ UNCHANGED <<cluster, obs>>
    /\ ConcFrame

\* load_data is called and clone_or_update_repo raises
ConcCloneRaises ==
    /\ \E t \in Tasks :
          /\ tasks[t].pc = "idle"
          /\ Fail(t, "Git error")
    /\ UNCHANGED <<cluster, obs>>
    /\ ConcFrame

\* extract_documents returns; if not documents: return {"error": ...}
ConcExtract ==
    /\ \E t \in Tasks, r \in ConcRepos :
          /\ tasks[t].pc = "extract"
          /\ IF r = <<>>
             THEN tasks' = [tasks EXCEPT ![t].pc = "done", ![t].result = NoDocumentsResult]
             ELSE tasks' = [tasks EXCEPT ![t].pc = "exists", ![t].documents = r]
    /\ UNCHANGED <<cluster, obs>>
    /\ ConcFrame

\* create_index: await self.es.indices.exists(...)
ConcExists ==
    /\ \E t \in Tasks :
          /\ tasks[t].pc = "exists"
          /\ tasks' = [tasks EXCEPT ![t].pc = IF cluster.exists THEN "delete" ELSE "create"]
    /\ UNCHANGED <<cluster, obs>>
    /\ ConcFrame

\* create_index: await self.es.indices.delete(...); Elasticsearch refuses
\* to delete an index that is not there
ConcDelete ==
    /\ \E t \in Tasks :
          /\ tasks[t].pc = "delete"
          /\ \/ /\ cluster.exists
                /\ cluster' = EsDelete(cluster)
                /\ tasks' = [tasks EXCEPT ![t].pc = "create"]
             \/ /\ ~cluster.exists
                /\ Fail(t, "ES error")
                /\ UNCHANGED cluster
    /\ UNCHANGED obs
    /\ ConcFrame

\* create_index: await self.es.indices.create(...); Elasticsearch refuses
\* to create an index that is there
ConcCreate ==
    /\ \E t \in Tasks :
          /\ tasks[t].pc = "create"
          /\ \/ /\ ~cluster.exists
                /\ cluster' = EsCreate(cluster)
                /\ tasks' = [tasks EXCEPT ![t].pc = "bulk"]
             \/ /\ cluster.exists
                /\ Fail(t, "ES error")
                /\ UNCHANGED cluster
    /\ UNCHANGED obs
    /\ ConcFrame

\* index_documents: await async_bulk(self.es, actions), and the return of
\* load_data. On an index that is not there the request creates it, or is
\* refused, as the cluster is configured.
ConcBulk ==
    /\ \E t \in Tasks :
          /\ tasks[t].pc = "bulk"
          /\ \/ /\ cluster' = EsBulk(cluster, BuildActions(tasks[t].documents, t),
                                     1..Len(tasks[t].documents))
                /\ tasks' = [tasks EXCEPT ![t].pc = "done",
                                          ![t].result = SuccessResult(tasks[t].documents)]
             \/ /\ ~cluster.exists
                /\ Fail(t, "ES error")
                /\ UNCHANGED cluster
    /\ UNCHANGED obs
    /\ ConcFrame

\* search_documents or get_document_by_id: one request to Elasticsearch,
\* answered from the index as it is
Observe ==
    /\ ~obs.made
    /\ obs' = [made   |-> TRUE,
               exists |-> cluster.exists,
               docs   |-> Content(cluster).docs,
               during |-> {t \in Tasks : Running(t)}]
    /\ UNCHANGED <<tasks, cluster>>
    /\ ConcFrame

ConcNext ==
    \/ ConcClone
    \/ ConcCloneRaises
    \/ ConcExtract
    \/ ConcExists
    \/ ConcDelete
    \/ ConcCreate
    \/ ConcBulk
    \/ Observe

SpecConc == ConcInit /\ [][ConcNext]_vars

\* C29: once two overlapping refreshes have both returned success, the index
\* holds exactly the chunk collection extracted by one of them.
C29_OverlappingRefreshesSerialize ==
    (\A t \in Tasks : tasks[t].pc = "done" /\ "status" \in DOMAIN tasks[t].result)
        => \E t \in Tasks :
              Content(cluster) = [exists |-> TRUE,
                                  docs   |-> {tasks[t].documents[k] : k \in 1..Len(tasks[t].documents)}]

\* C30: a search or get-by-id made while a refresh was in progress, the
\* refresh then succeeding, saw the complete index content from before the
\* refresh or the complete content after it.
C30_ReaderSeesBeforeOrAfter ==
    \A t \in Tasks :
        (/\ obs.made
         /\ obs.during = {t}
         /\ tasks[t].pc = "done"
         /\ "status" \in DOMAIN tasks[t].result
         /\ \A u \in Tasks \ {t} : tasks[u].pc = "idle")
        => \/ [exists |-> obs.exists, docs |-> obs.docs] = Content(tasks[t].es0)
           \/ [exists |-> obs.exists, docs |-> obs.docs] = Content(cluster)

====
